---------------------------- MODULE Spec2Model ----------------------------
(***************************************************************************)
(* Inventory ledger and spreadsheet reconciliation of app.py.              *)
(*                                                                         *)
(* The state is the SQLite store (the products table, the                  *)
(* InventoryTransactions table and the AUTOINCREMENT counters kept in      *)
(* sqlite_sequence), the workbook STOCK.xlsx the import route reads, and   *)
(* the last request served together with its response.  Every route is    *)
(* one action: the handler from its first line to its return.             *)
(*                                                                         *)
(* Numbers read from a cell or a JSON body are kept in halves, so that     *)
(* Num(5) is 2.5 and Python's int() is a real truncation.  Quantities      *)
(* stored in the tables are whole numbers, as int() leaves them.           *)
(***************************************************************************)
EXTENDS Integers, Sequences, FiniteSets, TLC

VARIABLES STOCK_xlsx, products, InventoryTransactions, sqlite_sequence, last,
          requests

vars == <<STOCK_xlsx, products, InventoryTransactions, sqlite_sequence, last, requests>>

db == <<products, InventoryTransactions, sqlite_sequence>>

-----------------------------------------------------------------------------
(* Bounds of the model                                                     *)

MaxSNo == 2            \* row identifiers (S.NO.) of the workbook are 1..MaxSNo
MaxRows == 2           \* rows of a sheet
MaxColumns == 2        \* date columns of the ISSUE and RECEIPT sheets
MaxQuantity == 2       \* request quantities are -1..MaxQuantity
MaxTransactions == 2   \* the single-entry routes stop adding rows at this ledger length
MaxProducts == 1       \* add_product stops adding rows at this catalog size
MaxRequests == 2       \* sales that are served at the same time

-----------------------------------------------------------------------------
(* Raw values: a spreadsheet cell or a JSON field                          *)

NA == [k |-> "na", v |-> 0, s |-> ""]        \* NaN / None / absent
Str(t) == [k |-> "text", v |-> 0, s |-> t]   \* the string t, which is no number
Txt == Str("abc")
Arr == [k |-> "array", v |-> 0, s |-> ""]    \* a JSON array that is not empty
Num(h) == [k |-> "num", v |-> h, s |-> ""]   \* the number h/2
Whole(n) == Num(2 * n)                       \* the integer n

isna(c) == c.k = "na"

\* Python int(x) on a number: truncation toward zero.
int(c) == IF c.v >= 0 THEN c.v \div 2 ELSE -((-c.v) \div 2)

\* float(x) > 0 / x == 0 on a number
IsZero(c) == c.k = "num" /\ c.v = 0

RECURSIVE SumQty(_)
SumQty(s) == IF s = <<>> THEN 0 ELSE Head(s).quantity_change + SumQty(Tail(s))

\* SELECT COALESCE(SUM(quantity_change), 0) ... WHERE product_id = ?
stock_of(tx, pid) == SumQty(SelectSeq(tx, LAMBDA t : t.product_id = pid))

current_stock(pid) == stock_of(InventoryTransactions, pid)

ProductIdsOf(ps) == {ps[i].id : i \in 1..Len(ps)}
SkusOf(ps) == {ps[i].sku : i \in 1..Len(ps)}
TxIdsOf(ts) == {ts[i].id : i \in 1..Len(ts)}

\* timestamp DATETIME DEFAULT CURRENT_TIMESTAMP: the moment of the insert,
\* which is no calendar date of a column header.
CURRENT_TIMESTAMP == [y |-> 0, m |-> 0, d |-> 0]

\* f"ITEM-{s_no}": the prefix and the identifier as it was read
Sku(s_no) == <<"ITEM", s_no.v>>

\* One row of InventoryTransactions with the id AUTOINCREMENT gives it.
NewTx(seq, pid, type, qty, notes, ts) ==
    [id |-> seq.InventoryTransactions + 1, product_id |-> pid, type |-> type,
     quantity_change |-> qty, notes |-> notes, timestamp |-> ts]

BumpTx(seq) == [seq EXCEPT !.InventoryTransactions = @ + 1]
BumpProduct(seq) == [seq EXCEPT !.products = @ + 1]


-----------------------------------------------------------------------------
(* Request inputs                                                          *)

\* product_id of a JSON body: 0 stands for a missing, null or zero id.
ProductIdInputs == 0..(MaxProducts + 1)

\* quantity of a JSON body: missing, a string that is no number, an array,
\* an integer (negative, zero, one, the largest), or a number with a
\* fraction (MaxQuantity and a half).
QuantityInputs ==
    {NA, Txt, Arr} \cup {Whole(n) : n \in {-1, 0, 1, MaxQuantity}}
                   \cup {Num(2 * MaxQuantity + 1)}

Names == {"A"}
Units == {"kg"}
\* sku of add_product: one the import derives too, and one it does not
SkuInputs == {Sku(Whole(1)), Sku(Whole(9))}

\* supplier / customer, notes and date of a purchase or sale
Details == {[party |-> "p", notes |-> "", date |-> "d"]}

\* opening, receipt and issue of add_product
CounterInputs == {[opening |-> 1, receipt |-> 2, issue |-> 3]}

TxTypes == {"purchase", "sale", "adjust"}

\* product_id and quantity of the generic transaction post: a product that
\* exists or one that does not; missing, text, negative or positive.
TxProductIdInputs == {1, MaxProducts + 1}
TxQuantityInputs == {NA, Txt, Whole(-1), Whole(1)}

\* What a route answered: the HTTP status, the error of the taxonomy (or "ok")
\* and the value the body carries.
Reply(op, args, status, result, value) ==
    [op |-> op, args |-> args, status |-> status, result |-> result, value |-> value]

Response(op, args, status, result) == Reply(op, args, status, result, <<>>)

-----------------------------------------------------------------------------
(* GET /api/products                                                       *)

\* The names of the model in the order ORDER BY p.name gives them.
NameOrder == <<"A", "B", "C", "D", "E", "Z", "nan">>

name_rank(name) == CHOOSE i \in 1..Len(NameOrder) : NameOrder[i] = name

\* ORDER BY p.name; rows of one name are taken in the order of their ids.
RECURSIVE order_by_name(_)
order_by_name(rows) ==
    IF rows = {} THEN <<>>
    ELSE LET least == CHOOSE r \in rows :
                         \A t \in rows :
                            \/ name_rank(r.name) < name_rank(t.name)
                            \/ name_rank(r.name) = name_rank(t.name) /\ r.id <= t.id
         IN <<least>> \o order_by_name(rows \ {least})

\* The rows of the products table as they are: the four counters are the
\* columns of the row, and no column is computed from the ledger.
get_products ==
    /\ last' = Reply("get_products", <<>>, 200, "ok",
                     order_by_name({products[i] : i \in 1..Len(products)}))
    /\ UNCHANGED <<STOCK_xlsx, db>>

-----------------------------------------------------------------------------
(* POST /api/product                                                       *)

\* A catalog whose sku column takes any value again.
sku_not_unique(sku, ps) == FALSE

\* sku TEXT NOT NULL UNIQUE: the INSERT of a sku the table holds raises
\* sqlite3.IntegrityError.
IntegrityError(sku, ps) == sku \in SkusOf(ps)

add_product(sku, name, unit, quantity, date, c) ==
    LET args == [sku |-> sku, name |-> name, unit |-> unit, quantity |-> quantity,
                 date |-> date, counters |-> c]
        product_id == sqlite_sequence.products + 1
        initial_quantity == int(quantity)
        row == [id |-> product_id, sku |-> sku, name |-> name, unit |-> unit,
                opening |-> c.opening, receipt |-> c.receipt, issue |-> c.issue,
                balance |-> 0]
    IN
    /\ Len(products) < MaxProducts \/ sku \in SkusOf(products)
    /\ sqlite_sequence.InventoryTransactions < MaxTransactions
    /\ UNCHANGED STOCK_xlsx
    /\ IF isna(quantity)
       THEN \* 'quantity' not in new_product
            /\ last' = Response("add_product", args, 400, "ValidationError")
            /\ UNCHANGED db
       ELSE IF quantity.k \in {"text", "array"}
       THEN \* int() raises before the store is opened
            /\ last' = Response("add_product", args, 500, "ServerError")
            /\ UNCHANGED db
       ELSE IF IntegrityError(sku, products)
       THEN \* the INSERT raises, then db.rollback()
            /\ last' = Response("add_product", args, 400, "DuplicateSKU")
            /\ UNCHANGED db
       ELSE /\ products' = Append(products, row)
            /\ IF initial_quantity # 0
               THEN /\ InventoryTransactions' =
                         Append(InventoryTransactions,
                                NewTx(sqlite_sequence, product_id, "initial",
                                      initial_quantity, <<"Initial stock", date>>,
                                      CURRENT_TIMESTAMP))
                    /\ sqlite_sequence' = BumpTx(BumpProduct(sqlite_sequence))
               ELSE /\ UNCHANGED InventoryTransactions
                    /\ sqlite_sequence' = BumpProduct(sqlite_sequence)
            /\ last' = Response("add_product", args, 201, "ok")

-----------------------------------------------------------------------------
(* POST /api/purchase                                                      *)

record_purchase(product_id, quantity, d) ==
    LET args == [product_id |-> product_id, quantity |-> quantity, details |-> d]
        q == int(quantity)
    IN
    /\ sqlite_sequence.InventoryTransactions < MaxTransactions
    /\ UNCHANGED <<STOCK_xlsx, products>>
    /\ IF product_id = 0 \/ isna(quantity) \/ IsZero(quantity)
       THEN \* not product_id or not quantity
            /\ last' = Response("record_purchase", args, 400, "ValidationError")
            /\ UNCHANGED <<InventoryTransactions, sqlite_sequence>>
       ELSE IF quantity.k = "array"
       THEN \* int() raises TypeError, which except ValueError lets through
            /\ last' = Response("record_purchase", args, 500, "ServerError")
            /\ UNCHANGED <<InventoryTransactions, sqlite_sequence>>
       ELSE IF quantity.k = "text" \/ q <= 0
       THEN /\ last' = Response("record_purchase", args, 400, "ValidationError")
            /\ UNCHANGED <<InventoryTransactions, sqlite_sequence>>
       ELSE IF product_id \notin ProductIdsOf(products)
       THEN /\ last' = Response("record_purchase", args, 404, "NotFound")
            /\ UNCHANGED <<InventoryTransactions, sqlite_sequence>>
       ELSE /\ InventoryTransactions' =
                 Append(InventoryTransactions,
                        NewTx(sqlite_sequence, product_id, "purchase", q,
                              <<"Purchase", q, d.party, d.notes, d.date>>,
                              CURRENT_TIMESTAMP))
            /\ sqlite_sequence' = BumpTx(sqlite_sequence)
            /\ last' = Response("record_purchase", args, 201, "ok")

-----------------------------------------------------------------------------
(* POST /api/sale                                                          *)

\* The guard with <= in place of <: it refuses the sale of the whole stock.
InsufficientStock_at_equal(stock, quantity) == stock <= quantity

\* if current_stock < quantity: the sale is refused
InsufficientStock(stock, quantity) == stock < quantity

\* The stock the answer of a sale reports without the quantity sold taken off.
remaining_stock_before_sale(stock, quantity) == stock

\* 'current_stock': current_stock - quantity
remaining_stock(stock, quantity) == stock - quantity

record_sale(product_id, quantity, d) ==
    LET args == [product_id |-> product_id, quantity |-> quantity, details |-> d]
        q == int(quantity)
    IN
    /\ sqlite_sequence.InventoryTransactions < MaxTransactions
    /\ UNCHANGED <<STOCK_xlsx, products>>
    /\ IF product_id = 0 \/ isna(quantity) \/ IsZero(quantity)
       THEN /\ last' = Response("record_sale", args, 400, "ValidationError")
            /\ UNCHANGED <<InventoryTransactions, sqlite_sequence>>
       ELSE IF quantity.k = "array"
       THEN \* int() raises TypeError, which except ValueError lets through
            /\ last' = Response("record_sale", args, 500, "ServerError")
            /\ UNCHANGED <<InventoryTransactions, sqlite_sequence>>
       ELSE IF quantity.k = "text" \/ q <= 0
       THEN /\ last' = Response("record_sale", args, 400, "ValidationError")
            /\ UNCHANGED <<InventoryTransactions, sqlite_sequence>>
       ELSE IF product_id \notin ProductIdsOf(products)
       THEN /\ last' = Response("record_sale", args, 404, "NotFound")
            /\ UNCHANGED <<InventoryTransactions, sqlite_sequence>>
       ELSE IF InsufficientStock(current_stock(product_id), q)
       THEN /\ last' = Reply("record_sale", args, 400, "InsufficientStock",
                             current_stock(product_id))
            /\ UNCHANGED <<InventoryTransactions, sqlite_sequence>>
       ELSE /\ InventoryTransactions' =
                 Append(InventoryTransactions,
                        NewTx(sqlite_sequence, product_id, "sale", -q,
                              <<"Sale", q, d.party, d.notes, d.date>>,
                              CURRENT_TIMESTAMP))
            /\ sqlite_sequence' = BumpTx(sqlite_sequence)
            /\ last' = Reply("record_sale", args, 201, "ok",
                             remaining_stock(current_stock(product_id), q))

-----------------------------------------------------------------------------
(* POST /api/transaction                                                   *)

add_transaction(product_id, tx_type, quantity) ==
    LET args == [product_id |-> product_id, type |-> tx_type, quantity |-> quantity]
        q == int(quantity)
        quantity_change == IF tx_type = "purchase" THEN q ELSE -q
        notes == IF tx_type = "purchase" THEN <<"Stock In (Purchase)", q>>
                                         ELSE <<"Stock Out (Sale)", q>>
    IN
    /\ sqlite_sequence.InventoryTransactions < MaxTransactions
    /\ UNCHANGED <<STOCK_xlsx, products>>
    /\ IF isna(quantity)
       THEN /\ last' = Response("add_transaction", args, 400, "ValidationError")
            /\ UNCHANGED <<InventoryTransactions, sqlite_sequence>>
       ELSE IF quantity.k \in {"text", "array"}
       THEN /\ last' = Response("add_transaction", args, 500, "ServerError")
            /\ UNCHANGED <<InventoryTransactions, sqlite_sequence>>
       ELSE IF tx_type \notin {"purchase", "sale"}
       THEN /\ last' = Response("add_transaction", args, 400, "ValidationError")
            /\ UNCHANGED <<InventoryTransactions, sqlite_sequence>>
       ELSE \* no foreign-key enforcement is switched on: the row is inserted as given
            /\ InventoryTransactions' =
                 Append(InventoryTransactions,
                        NewTx(sqlite_sequence, product_id, tx_type, quantity_change,
                              notes, CURRENT_TIMESTAMP))
            /\ sqlite_sequence' = BumpTx(sqlite_sequence)
            /\ last' = Response("add_transaction", args, 201, "ok")

-----------------------------------------------------------------------------
(* DELETE /api/transaction/<id>                                            *)

\* A DELETE that takes every entry of the product the entry belongs to.
DELETE_WHERE_product(ts, transaction_id) ==
    LET owners == {ts[i].product_id : i \in {j \in 1..Len(ts) : ts[j].id = transaction_id}}
    IN SelectSeq(ts, LAMBDA t : t.product_id \notin owners)

\* DELETE FROM InventoryTransactions WHERE id = ?
DELETE_WHERE_id(ts, transaction_id) ==
    SelectSeq(ts, LAMBDA t : t.id # transaction_id)

delete_transaction(transaction_id) ==
    LET args == [transaction_id |-> transaction_id]
        transaction == CHOOSE t \in {InventoryTransactions[i] :
                                        i \in 1..Len(InventoryTransactions)} :
                           t.id = transaction_id
        transaction_details ==
            [id |-> transaction.id, product_id |-> transaction.product_id,
             type |-> transaction.type, quantity_change |-> transaction.quantity_change,
             notes |-> transaction.notes]
    IN
    /\ UNCHANGED <<STOCK_xlsx, products, sqlite_sequence>>
    /\ IF transaction_id \notin TxIdsOf(InventoryTransactions)
       THEN /\ last' = Response("delete_transaction", args, 404, "NotFound")
            /\ UNCHANGED InventoryTransactions
       ELSE /\ InventoryTransactions' =
                 DELETE_WHERE_id(InventoryTransactions, transaction_id)
            /\ last' = Reply("delete_transaction", args, 200, "ok", transaction_details)

-----------------------------------------------------------------------------
(* parse_excel_date                                                        *)

Date(y, m, d) == [y |-> y, m |-> m, d |-> d]
None == [y |-> -1, m |-> 0, d |-> 0]

\* Column labels and other values handed to parse_excel_date.
NaNLabel == [k |-> "nan", sep |-> "", d |-> 0, m |-> 0, y |-> 0, ylen |-> 0]
BlankLabel == [k |-> "blank", sep |-> "", d |-> 0, m |-> 0, y |-> 0, ylen |-> 0]
Word == [k |-> "word", sep |-> "", d |-> 0, m |-> 0, y |-> 0, ylen |-> 0]
\* a value that is neither a string nor a datetime: a number, a datetime.date
Other == [k |-> "other", sep |-> "", d |-> 0, m |-> 0, y |-> 0, ylen |-> 0]
DateTime(y, m, d) == [k |-> "datetime", sep |-> "", d |-> d, m |-> m, y |-> y, ylen |-> 4]
\* the string "<d><sep><m><sep><y>" with the year written in ylen digits
DMY(sep, d, m, y, ylen) == [k |-> "dmy", sep |-> sep, d |-> d, m |-> m, y |-> y, ylen |-> ylen]

IsLeap(y) == (y % 4 = 0 /\ y % 100 # 0) \/ y % 400 = 0

DaysInMonth(y, m) ==
    IF m = 2 THEN (IF IsLeap(y) THEN 29 ELSE 28)
    ELSE IF m \in {4, 6, 9, 11} THEN 30 ELSE 31

ValidDate(y, m, d) == m \in 1..12 /\ d >= 1 /\ d <= DaysInMonth(y, m)

\* %y: 00..68 are 2000..2068, 69..99 are 1969..1999; %Y: the four digits
Year(v) == IF v.ylen = 2 THEN (IF v.y < 69 THEN 2000 + v.y ELSE 1900 + v.y) ELSE v.y

formats == << [sep |-> ".", ylen |-> 2], [sep |-> "/", ylen |-> 2],
              [sep |-> ".", ylen |-> 4], [sep |-> "/", ylen |-> 4] >>

\* strptime under formats that read the month first (%m.%d.%y and so on).
strptime_month_first(v, fmt) ==
    IF v.k = "dmy" /\ v.sep = fmt.sep /\ v.ylen = fmt.ylen /\ ValidDate(Year(v), v.d, v.m)
    THEN Date(Year(v), v.d, v.m)
    ELSE None

\* datetime.datetime.strptime(date_value, fmt).date(), None for ValueError
strptime(v, fmt) ==
    IF v.k = "dmy" /\ v.sep = fmt.sep /\ v.ylen = fmt.ylen /\ ValidDate(Year(v), v.m, v.d)
    THEN Date(Year(v), v.m, v.d)
    ELSE None

\* date_parser.parse(date_value, dayfirst=True).date(), None when it raises
\* It takes three numbers as year, month and day when the first is above 31,
\* as day, month and year when the first is above 12 or the second can be a
\* month, and as month, day and year otherwise; a year of two digits is in
\* this century for the years of the model.
dateutil_parse(v) ==
    LET century(y) == IF y < 100 THEN 2000 + y ELSE y
        ymd == IF v.d > 31
               THEN (IF v.y <= 12 THEN Date(century(v.d), v.y, v.m)
                                  ELSE Date(century(v.d), v.m, v.y))
               ELSE IF v.d > 12 \/ v.m <= 12
               THEN Date(century(v.y), v.m, v.d)
               ELSE Date(century(v.y), v.d, v.m)
    IN IF v.k # "dmy" THEN None
       ELSE IF ValidDate(ymd.y, ymd.m, ymd.d) THEN ymd
       ELSE None

parse_excel_date(date_value) ==
    IF date_value.k = "nan" THEN None
    ELSE IF date_value.k = "datetime"
    THEN Date(date_value.y, date_value.m, date_value.d)
    ELSE IF date_value.k = "other" THEN None
    ELSE IF date_value.k = "blank" THEN None
    ELSE LET hits == {i \in 1..Len(formats) : strptime(date_value, formats[i]) # None}
         IN IF hits # {}
            THEN strptime(date_value, formats[CHOOSE i \in hits : \A j \in hits : i <= j])
            ELSE dateutil_parse(date_value)

-----------------------------------------------------------------------------
(* GET /api/import-stock: cleaning of the BALANCE sheet                    *)

SheetNames == {"BALANCE", "ISSUE", "RECEIPT"}

\* The columns of BALANCE the route reads; S_NO is the column "S.NO.".
BalanceColumns == {"S_NO", "DESCRIPTION", "UNIT", "OPENING", "RECEIPT", "ISSUE", "BALANCE"}

\* pd.to_numeric(..., errors='coerce')
to_numeric(c) == IF c.k = "num" THEN c ELSE NA

\* str(x)
str(c) == IF c.k = "text" THEN c.s ELSE IF c.k = "na" THEN "nan" ELSE ToString(c.v)

\* df_balance['DESCRIPTION'].isin(['0', 0])
isin_zero(c) == c = Str("0") \/ c = Num(0)

\* The cleaning reads OPENING and DESCRIPTION and groups by S.NO.: a KeyError
\* on a missing column is caught and returned.
CleaningRaises(sheet) == ~({"OPENING", "DESCRIPTION", "S_NO"} \subseteq sheet.columns)

coerce_opening(rows) ==
    [i \in 1..Len(rows) |-> [rows[i] EXCEPT !.OPENING = to_numeric(@)]]

valid_balance_rows(rows) ==
    SelectSeq(coerce_opening(rows),
              LAMBDA r : ~isin_zero(r.DESCRIPTION) /\ ~isna(r.DESCRIPTION) /\ ~isna(r.OPENING))

\* GroupBy.first(): the first entry of the column in the group that is not null
RECURSIVE first(_, _)
first(group, col) ==
    IF group = <<>> THEN NA
    ELSE IF ~isna(Head(group)[col]) THEN Head(group)[col]
    ELSE first(Tail(group), col)

\* the group keys: rows without an S.NO. belong to no group
group_keys(rows) == {rows[i].S_NO : i \in 1..Len(rows)} \ {NA}

\* groupby sorts the groups by key
RECURSIVE sort_keys(_)
sort_keys(K) ==
    IF K = {} THEN <<>>
    ELSE LET least == CHOOSE k \in K : \A j \in K : k.v <= j.v
         IN <<least>> \o sort_keys(K \ {least})

\* reset_index(drop=True): the group key is not kept as a column.
reset_index_drop(keys, i) == NA

\* .reset_index(): the group key becomes the column S.NO. again
reset_index(keys, i) == keys[i]

\* valid_balance_df.groupby('S.NO.').first().reset_index()
groupby_first(rows) ==
    LET keys == sort_keys(group_keys(rows))
    IN [i \in 1..Len(keys) |->
          LET group == SelectSeq(rows, LAMBDA r : r.S_NO = keys[i])
          IN [S_NO |-> reset_index(keys, i),
              DESCRIPTION |-> first(group, "DESCRIPTION"),
              UNIT |-> first(group, "UNIT"),
              OPENING |-> first(group, "OPENING"),
              RECEIPT |-> first(group, "RECEIPT"),
              ISSUE |-> first(group, "ISSUE"),
              BALANCE |-> first(group, "BALANCE")]]

valid_balance_df(sheet) == groupby_first(valid_balance_rows(sheet.rows))

-----------------------------------------------------------------------------
(* GET /api/import-stock: clearing the tables and the strict phase         *)

\* The import's connection: the tables as its open transaction sees them,
\* the tables as of the last commit, and the locals of the route
\* (product_mapping, items_added_count, the row that raised).
connect(ps, tx, seq) ==
    [products |-> ps, tx |-> tx, seq |-> seq,
     committed |-> [products |-> ps, tx |-> tx, seq |-> seq],
     product_mapping |-> {}, items_added_count |-> 0, error |-> <<>>]

\* db.commit()
commit(st) ==
    [st EXCEPT !.committed = [products |-> st.products, tx |-> st.tx, seq |-> st.seq]]

\* db.commit() where the handler calls db.rollback(): the rows inserted before
\* the raise are kept.
rollback_commits(st) == commit(st)

\* db.rollback()
rollback(st) ==
    [st EXCEPT !.products = st.committed.products, !.tx = st.committed.tx,
               !.seq = st.committed.seq]

\* Step 4 without the DELETE FROM sqlite_sequence: the ids go on counting.
clear_tables_keeps_sequence(st) ==
    commit([st EXCEPT !.products = <<>>, !.tx = <<>>])

\* Step 4 without the DELETE FROM products: the catalog stays.
clear_tables_keeps_products(st) ==
    commit([st EXCEPT !.tx = <<>>,
                      !.seq = [products |-> 0, InventoryTransactions |-> 0]])

\* 4. Clear existing data: the three DELETEs, then db.commit()
clear_tables(st) ==
    commit([st EXCEPT !.products = <<>>, !.tx = <<>>,
                      !.seq = [products |-> 0, InventoryTransactions |-> 0]])

\* int(row[c]) if pd.notna(row[c]) else 0
int_or_0(c) == IF ~isna(c) THEN int(c) ELSE 0

\* What raises inside the try of one row: a column the frame does not have
\* (KeyError), or int() of a string that is no number (ValueError).
RowRaises(sheet, row) ==
    \/ ~({"UNIT", "RECEIPT", "ISSUE", "BALANCE"} \subseteq sheet.columns)
    \/ \E col \in {"RECEIPT", "ISSUE", "BALANCE"} : row[col].k = "text"

\* The initial entry written for every product, a zero opening included.
has_opening_always(opening_stock) == TRUE

\* if opening_stock != 0:
has_opening(opening_stock) == opening_stock # 0

\* One pass of the loop body that does not raise.
insert_product(st, row) ==
    LET product_id == st.seq.products + 1
        opening_stock == int_or_0(row.OPENING)
        product == [id |-> product_id, sku |-> Sku(row.S_NO),
                    name |-> str(row.DESCRIPTION), unit |-> str(row.UNIT),
                    opening |-> opening_stock, receipt |-> int_or_0(row.RECEIPT),
                    issue |-> int_or_0(row.ISSUE), balance |-> int_or_0(row.BALANCE)]
        inserted == [st EXCEPT !.products = Append(@, product),
                               !.seq = BumpProduct(@),
                               !.product_mapping = @ \cup {<<row.S_NO, product_id>>},
                               !.items_added_count = @ + 1]
    IN IF has_opening(opening_stock)
       THEN [inserted EXCEPT
               !.tx = Append(@, NewTx(inserted.seq, product_id, "initial", opening_stock,
                                      <<"Imported opening balance">>, CURRENT_TIMESTAMP)),
               !.seq = BumpTx(@)]
       ELSE inserted

\* for index, row in valid_balance_df.iterrows(): stops at the first row that raises
RECURSIVE import_products(_, _, _, _)
import_products(sheet, rows, i, st) ==
    IF i > Len(rows) THEN st
    ELSE IF RowRaises(sheet, rows[i]) \/ IntegrityError(Sku(rows[i].S_NO), st.products)
    THEN [st EXCEPT !.error = <<[index |-> i - 1, sku |-> Sku(rows[i].S_NO),
                                 name |-> str(rows[i].DESCRIPTION)]>>]
    ELSE import_products(sheet, rows, i + 1, insert_product(st, rows[i]))

-----------------------------------------------------------------------------
(* GET /api/import-stock: the ISSUE and RECEIPT sheets                     *)

\* A slice that starts one column late.
issue_columns_from_second(sheet) == 2..Len(sheet.labels)

\* df_issue.columns[3:], as positions in labels
issue_columns(sheet) == 1..Len(sheet.labels)

\* df_receipt.columns[3:], as positions in labels: the last column is one of them
receipt_columns(sheet) == 1..Len(sheet.labels)

mapped(product_mapping, s_no) == \E e \in product_mapping : e[1] = s_no
lookup(product_mapping, s_no) == (CHOOSE e \in product_mapping : e[1] = s_no)[2]

\* The body of the column loop: the rows one cell inserts (none or one).
movement_cell(type, product_id, col_name, quantity) ==
    LET transaction_date == parse_excel_date(col_name) IN
    IF isna(quantity) \/ IsZero(quantity) THEN <<>>
    ELSE IF quantity.k = "text" THEN <<>>          \* float() raises ValueError
    ELSE IF quantity.v <= 0 THEN <<>>
    ELSE IF transaction_date = None THEN <<>>
    ELSE << [product_id |-> product_id, type |-> type,
             quantity_change |-> IF type = "sale" THEN -int(quantity) ELSE int(quantity),
             notes |-> <<IF type = "sale" THEN "Stock issue on" ELSE "Stock receipt on",
                         transaction_date>>,
             timestamp |-> transaction_date] >>

RECURSIVE movement_row(_, _, _, _, _, _)
movement_row(type, product_id, sheet, row, cols, j) ==
    IF j > Len(sheet.labels) THEN <<>>
    ELSE (IF j \in cols
          THEN movement_cell(type, product_id, sheet.labels[j], row.cells[j])
          ELSE <<>>)
         \o movement_row(type, product_id, sheet, row, cols, j + 1)

RECURSIVE movement_rows(_, _, _, _, _)
movement_rows(type, sheet, cols, product_mapping, i) ==
    IF i > Len(sheet.rows) THEN <<>>
    ELSE LET row == sheet.rows[i] IN
         (IF isna(row.S_NO) \/ isna(row.DESCRIPTION) THEN <<>>
          ELSE IF ~mapped(product_mapping, row.S_NO) THEN <<>>
          ELSE movement_row(type, lookup(product_mapping, row.S_NO), sheet, row, cols, 1))
         \o movement_rows(type, sheet, cols, product_mapping, i + 1)

\* A sheet whose header lacks S.NO. or DESCRIPTION raises KeyError at its
\* first row; the except around the sheet's loop prints and goes on.
movement_sheet(type, sheet, cols, product_mapping) ==
    IF ~sheet.keyed THEN <<>>
    ELSE movement_rows(type, sheet, cols, product_mapping, 1)

RECURSIVE insert_movements(_, _)
insert_movements(st, entries) ==
    IF entries = <<>> THEN st
    ELSE LET e == Head(entries) IN
         insert_movements(
            [st EXCEPT !.tx = Append(@, NewTx(st.seq, e.product_id, e.type,
                                              e.quantity_change, e.notes, e.timestamp)),
                       !.seq = BumpTx(@)],
            Tail(entries))

import_issue(st, sheet) ==
    insert_movements(st, movement_sheet("sale", sheet, issue_columns(sheet),
                                        st.product_mapping))

import_receipt(st, sheet) ==
    insert_movements(st, movement_sheet("purchase", sheet, receipt_columns(sheet),
                                        st.product_mapping))

-----------------------------------------------------------------------------
(* GET /api/import-stock                                                   *)

\* The locals of a run that got past the cleaning: the strict phase, then
\* the two lenient sheets.
insert_phase(wb, st) ==
    LET r == import_products(wb.BALANCE, valid_balance_df(wb.BALANCE), 1, st)
    IN IF r.error # <<>> THEN rollback(r) ELSE r

strict_phase(wb, st) == insert_phase(wb, clear_tables(st))

\* Steps 6 and 7 without the db.commit() that ends the route.
lenient_phase_uncommitted(wb, st) == import_receipt(import_issue(st, wb.ISSUE), wb.RECEIPT)

\* steps 6 and 7, then the db.commit() that ends the route
lenient_phase(wb, st) == commit(import_receipt(import_issue(st, wb.ISSUE), wb.RECEIPT))

\* The tables cleared before the workbook is read.
early_return_cleared(st) == clear_tables(st)

\* The returns of steps 1 to 3 come before get_db(): the store is as it was.
early_return(st) == st

import_stock ==
    LET wb == STOCK_xlsx
        conn == connect(products, InventoryTransactions, sqlite_sequence)
        st == strict_phase(wb, conn)
        done == lenient_phase(wb, st)
        \* db.close(): the store keeps what the connection committed
        close(c) == /\ products' = c.committed.products
                    /\ InventoryTransactions' = c.committed.tx
                    /\ sqlite_sequence' = c.committed.seq
    IN
    /\ UNCHANGED STOCK_xlsx
    /\ IF ~wb.exists
       THEN /\ last' = Response("import_stock", <<>>, 404, "SourceNotFound")
            /\ close(early_return(conn))
       ELSE IF ~(SheetNames \subseteq wb.sheets)
       THEN /\ last' = Response("import_stock", <<>>, 500, "SourceReadError")
            /\ close(early_return(conn))
       ELSE IF CleaningRaises(wb.BALANCE)
       THEN /\ last' = Response("import_stock", <<>>, 500, "CleaningError")
            /\ close(early_return(conn))
       ELSE IF st.error # <<>>
       THEN /\ last' = Reply("import_stock", <<>>, 500, "RowImportError", st.error[1])
            /\ close(st)
       ELSE /\ last' = Reply("import_stock", <<>>, 200, "ok", done.items_added_count)
            /\ close(done)

-----------------------------------------------------------------------------
(* The workbooks the model reads                                           *)

\* All sequences over S of length at most n.
RECURSIVE SeqsUpTo(_, _)
SeqsUpTo(S, n) ==
    IF n = 0 THEN {<<>>}
    ELSE LET shorter == SeqsUpTo(S, n - 1)
         IN shorter \cup {Append(q, x) : q \in {t \in shorter : Len(t) = n - 1}, x \in S}

\* All sequences over S of length exactly n.
SeqsOf(S, n) == {q \in SeqsUpTo(S, n) : Len(q) = n}

\* The columns of a BALANCE row other than S.NO. of the rows cleaning
\* keeps: a complete row with a fractional opening, a sparse row whose
\* opening is below one, a row with opening zero, a row whose RECEIPT is text.
KeptProfiles ==
    { [DESCRIPTION |-> Str("A"), UNIT |-> Str("kg"), OPENING |-> Num(5),
       RECEIPT |-> Whole(3), ISSUE |-> Whole(1), BALANCE |-> Num(9)],
      [DESCRIPTION |-> Str("B"), UNIT |-> NA, OPENING |-> Num(1),
       RECEIPT |-> NA, ISSUE |-> NA, BALANCE |-> NA],
      [DESCRIPTION |-> Str("C"), UNIT |-> Str("m"), OPENING |-> Whole(0),
       RECEIPT |-> Whole(2), ISSUE |-> Whole(2), BALANCE |-> Whole(0)],
      [DESCRIPTION |-> Str("D"), UNIT |-> Str("kg"), OPENING |-> Whole(2),
       RECEIPT |-> Txt, ISSUE |-> Whole(0), BALANCE |-> Whole(2)] }

\* ... and of the rows it drops: no description, the description "0" or 0,
\* an opening that is absent or no number.
DroppedProfiles ==
    { [DESCRIPTION |-> NA, UNIT |-> Str("kg"), OPENING |-> Whole(1),
       RECEIPT |-> Whole(1), ISSUE |-> Whole(1), BALANCE |-> Whole(1)],
      [DESCRIPTION |-> Str("0"), UNIT |-> NA, OPENING |-> Whole(1),
       RECEIPT |-> NA, ISSUE |-> NA, BALANCE |-> NA],
      [DESCRIPTION |-> Str("E"), UNIT |-> Str("kg"), OPENING |-> Txt,
       RECEIPT |-> Whole(1), ISSUE |-> Whole(1), BALANCE |-> Whole(1)] }

BalanceRow(s, p) ==
    [S_NO |-> s, DESCRIPTION |-> p.DESCRIPTION, UNIT |-> p.UNIT, OPENING |-> p.OPENING,
     RECEIPT |-> p.RECEIPT, ISSUE |-> p.ISSUE, BALANCE |-> p.BALANCE]

\* Every kept row under every identifier, the dropped rows under identifier
\* 1, and a kept row without an identifier.
BalanceRows ==
    {BalanceRow(Whole(n), p) : n \in 1..MaxSNo, p \in KeptProfiles}
    \cup {BalanceRow(Whole(1), p) : p \in DroppedProfiles}
    \cup {BalanceRow(NA, p) : p \in {q \in KeptProfiles : q.DESCRIPTION = Str("A")}}

BalanceSheet(columns, rows) == [columns |-> columns, rows |-> rows]

BalanceSheets == {BalanceSheet(BalanceColumns, rows) : rows \in SeqsUpTo(BalanceRows, MaxRows)}

\* Column labels: two dates in two of the formats, and a word such as TOTAL.
Labels == {DMY(".", 2, 7, 25, 2), DMY("/", 18, 7, 2025, 4), Word}

\* Cells under a date column: absent, text, zero, negative, 0.5, 2 and 2.5.
CellValues == {NA, Txt, Whole(0), Whole(-1), Num(1), Whole(2), Num(5)}

\* S.NO. of a movement row: absent, an identifier, or one past the last.
MoveSNoCells == {NA} \cup {Whole(n) : n \in 1..(MaxSNo + 1)}
DescriptionCells == {NA, Str("A")}

MoveRow(s_no, description, cells) ==
    [S_NO |-> s_no, DESCRIPTION |-> description, cells |-> cells]

MoveSheet(keyed, labels, rows) == [keyed |-> keyed, labels |-> labels, rows |-> rows]

\* One row and one date column: every key, label and cell.
OneCellSheets ==
    { MoveSheet(TRUE, <<l>>, <<MoveRow(s, d, <<c>>)>>)
      : l \in Labels, s \in MoveSNoCells, d \in DescriptionCells, c \in CellValues }

\* Rows of product 1 under up to MaxColumns columns.
GridSheets ==
    UNION { { MoveSheet(TRUE, ls, [i \in 1..Len(rs) |-> MoveRow(Whole(1), Str("A"), rs[i])])
              : ls \in SeqsOf({DMY("/", 18, 7, 2025, 4), Word}, n),
                rs \in SeqsUpTo(SeqsOf({Txt, Num(5)}, n), MaxRows) }
            : n \in 0..MaxColumns }

\* Up to MaxRows rows of any key under one date column.
RowSheets ==
    { MoveSheet(TRUE, <<DMY(".", 2, 7, 25, 2)>>, rs)
      : rs \in SeqsUpTo({MoveRow(s, d, <<Whole(2)>>)
                          : s \in MoveSNoCells, d \in DescriptionCells}, MaxRows) }

\* A sheet whose header has no S.NO. column.
UnkeyedSheet ==
    MoveSheet(FALSE, <<DMY(".", 2, 7, 25, 2)>>, <<MoveRow(Whole(1), Str("A"), <<Whole(2)>>)>>)

MoveSheets == OneCellSheets \cup GridSheets \cup RowSheets \cup {UnkeyedSheet}

Workbook(exists, sheets, balance, issue, receipt) ==
    [exists |-> exists, sheets |-> sheets, BALANCE |-> balance, ISSUE |-> issue,
     RECEIPT |-> receipt]

\* A plain workbook: two products, one issue and one receipt of product 1.
PlainBalance ==
    BalanceSheet(BalanceColumns,
        << [S_NO |-> Whole(1), DESCRIPTION |-> Str("A"), UNIT |-> Str("kg"),
            OPENING |-> Whole(2), RECEIPT |-> Whole(3), ISSUE |-> Whole(1),
            BALANCE |-> Whole(4)],
           [S_NO |-> Whole(2), DESCRIPTION |-> Str("B"), UNIT |-> Str("m"),
            OPENING |-> Whole(0), RECEIPT |-> NA, ISSUE |-> NA, BALANCE |-> NA] >>)

PlainIssue ==
    MoveSheet(TRUE, <<DMY(".", 2, 7, 25, 2)>>, <<MoveRow(Whole(1), Str("A"), <<Whole(1)>>)>>)

PlainReceipt ==
    MoveSheet(TRUE, <<DMY("/", 18, 7, 2025, 4), Word>>,
              <<MoveRow(Whole(1), Str("A"), <<Whole(3), Whole(3)>>)>>)

PlainWorkbook == Workbook(TRUE, SheetNames, PlainBalance, PlainIssue, PlainReceipt)

\* Workbooks that cannot be read or cleaned: no file, a sheet missing, a
\* BALANCE sheet without one of the columns the cleaning reads, and one
\* without a column the strict phase reads.
BrokenWorkbooks ==
    {Workbook(FALSE, {}, PlainBalance, PlainIssue, PlainReceipt)}
    \cup {Workbook(TRUE, SheetNames \ {n}, PlainBalance, PlainIssue, PlainReceipt)
          : n \in SheetNames}
    \cup {Workbook(TRUE, SheetNames,
                   BalanceSheet(BalanceColumns \ {c}, PlainBalance.rows),
                   PlainIssue, PlainReceipt)
          : c \in {"S_NO", "DESCRIPTION", "OPENING", "UNIT"}}

Workbooks ==
    BrokenWorkbooks
    \cup {Workbook(TRUE, SheetNames, b, PlainIssue, PlainReceipt) : b \in BalanceSheets}
    \cup {Workbook(TRUE, SheetNames, PlainBalance, i, PlainReceipt) : i \in MoveSheets}
    \cup {Workbook(TRUE, SheetNames, PlainBalance, PlainIssue, r) : r \in MoveSheets}

-----------------------------------------------------------------------------
(* Specifications                                                          *)

\* No request is being served.
Idle == [pc |-> "idle", product_id |-> 0, quantity |-> 0, current_stock |-> 0,
         result |-> ""]

NoRequests == [sale |-> [r \in 1..MaxRequests |-> Idle], import |-> "idle"]

EmptyStore ==
    /\ requests = NoRequests
    /\ products = <<>>
    /\ InventoryTransactions = <<>>
    /\ sqlite_sequence = [products |-> 0, InventoryTransactions |-> 0]
    /\ last = Response("init_db", <<>>, 0, "ok")

\* The routes under every request of the input sets, with a workbook that
\* imports.
Init ==
    /\ STOCK_xlsx = PlainWorkbook
    /\ EmptyStore

AddProduct ==
    \E sku \in SkuInputs, name \in Names, unit \in Units, q \in QuantityInputs,
       c \in CounterInputs :
       add_product(sku, name, unit, q, "d", c) /\ UNCHANGED requests

RecordPurchase ==
    \E p \in ProductIdInputs, q \in QuantityInputs, d \in Details :
       record_purchase(p, q, d) /\ UNCHANGED requests

RecordSale ==
    \E p \in ProductIdInputs, q \in QuantityInputs, d \in Details :
       record_sale(p, q, d) /\ UNCHANGED requests

AddTransaction ==
    \E p \in TxProductIdInputs, t \in TxTypes, q \in TxQuantityInputs :
       add_transaction(p, t, q) /\ UNCHANGED requests

DeleteTransaction ==
    \E i \in 1..(MaxTransactions + 1) : delete_transaction(i) /\ UNCHANGED requests

ImportStock == import_stock /\ UNCHANGED requests

GetProducts == get_products /\ UNCHANGED requests

Next ==
    \/ GetProducts
    \/ AddProduct
    \/ RecordPurchase
    \/ RecordSale
    \/ AddTransaction
    \/ DeleteTransaction
    \/ ImportStock

Spec == Init /\ [][Next]_vars

\* The import under every workbook of the model, before and after a few
\* plain requests.
InitImport ==
    /\ STOCK_xlsx \in Workbooks
    /\ EmptyStore

SeedProduct ==
    /\ add_product(Sku(Whole(MaxSNo)), "Z", "kg", Whole(2), "d",
                   [opening |-> 2, receipt |-> 0, issue |-> 0])
    /\ UNCHANGED requests

SeedSale == \E d \in Details : record_sale(1, Whole(1), d) /\ UNCHANGED requests

NextImport ==
    \/ ImportStock
    \/ SeedProduct
    \/ SeedSale

SpecImport == InitImport /\ [][NextImport]_vars

-----------------------------------------------------------------------------
(* POST /api/sale served by several threads at once                        *)

\* record_sale opens its own connection and runs two SELECTs and one INSERT.
\* The sqlite3 module begins a transaction only before the INSERT, so each
\* SELECT reads the committed store of its moment and the requests of other
\* threads can run between the three statements. requests.sale[r] holds the
\* locals of the request thread r is serving.

SaleProductIds == {1, MaxProducts + 1}
SaleQuantities == {Whole(n) : n \in 0..MaxQuantity}

sale_args(rq) == [product_id |-> rq.product_id, quantity |-> rq.quantity]

\* The request is read and validated, then SELECT id, name FROM products.
sale_select_product(r, product_id, quantity) ==
    LET rq == [Idle EXCEPT !.product_id = product_id, !.quantity = quantity]
        answer(status, result) ==
            /\ requests' = [requests EXCEPT !.sale[r] =
                               [rq EXCEPT !.pc = "done", !.result = result]]
            /\ last' = Response("record_sale", sale_args(rq), status, result)
    IN
    /\ requests.sale[r].pc = "idle"
    /\ UNCHANGED <<STOCK_xlsx, db>>
    /\ IF product_id = 0 \/ isna(quantity) \/ IsZero(quantity)
       THEN answer(400, "ValidationError")
       ELSE IF quantity.k = "array"
       THEN answer(500, "ServerError")
       ELSE IF quantity.k = "text" \/ int(quantity) <= 0
       THEN answer(400, "ValidationError")
       ELSE IF product_id \notin ProductIdsOf(products)
       THEN answer(404, "NotFound")
       ELSE /\ requests' = [requests EXCEPT !.sale[r] = [rq EXCEPT !.pc = "found"]]
            /\ UNCHANGED last

\* SELECT COALESCE(SUM(quantity_change), 0), then the stock guard.
sale_select_stock(r) ==
    LET rq == requests.sale[r]
        stock == current_stock(rq.product_id)
    IN
    /\ rq.pc = "found"
    /\ UNCHANGED <<STOCK_xlsx, db>>
    /\ IF InsufficientStock(stock, int(rq.quantity))
       THEN /\ requests' = [requests EXCEPT !.sale[r] =
                               [rq EXCEPT !.pc = "done", !.current_stock = stock,
                                          !.result = "InsufficientStock"]]
            /\ last' = Reply("record_sale", sale_args(rq), 400, "InsufficientStock", stock)
       ELSE /\ requests' = [requests EXCEPT !.sale[r] =
                               [rq EXCEPT !.pc = "checked", !.current_stock = stock]]
            /\ UNCHANGED last

\* The INSERT of the sale entry and db.commit(); the answer reports the stock
\* that was read before.
sale_insert(r) ==
    LET rq == requests.sale[r]
        q == int(rq.quantity)
    IN
    /\ rq.pc = "checked"
    /\ UNCHANGED <<STOCK_xlsx, products>>
    /\ InventoryTransactions' =
         Append(InventoryTransactions,
                NewTx(sqlite_sequence, rq.product_id, "sale", -q,
                      <<"Sale", q, "", "", "">>, CURRENT_TIMESTAMP))
    /\ sqlite_sequence' = BumpTx(sqlite_sequence)
    /\ requests' = [requests EXCEPT !.sale[r] = [rq EXCEPT !.pc = "done", !.result = "ok"]]
    /\ last' = Reply("record_sale", sale_args(rq), 201, "ok",
                     remaining_stock(rq.current_stock, q))

\* The store after POST /api/product for one product with an opening
\* quantity s.
StoreWithStock(s) ==
    /\ products = <<[id |-> 1, sku |-> Sku(Whole(9)), name |-> "A", unit |-> "kg",
                     opening |-> 1, receipt |-> 2, issue |-> 3, balance |-> 0]>>
    /\ InventoryTransactions =
         (IF s = 0 THEN <<>>
          ELSE <<NewTx([products |-> 1, InventoryTransactions |-> 0], 1, "initial", s,
                       <<"Initial stock", "d">>, CURRENT_TIMESTAMP)>>)
    /\ sqlite_sequence = [products |-> 1,
                          InventoryTransactions |-> IF s = 0 THEN 0 ELSE 1]
    /\ last = Response("add_product", <<>>, 201, "ok")

InitSales ==
    /\ STOCK_xlsx = PlainWorkbook
    /\ requests = NoRequests
    /\ \E s \in 0..MaxQuantity : StoreWithStock(s)

SaleSelectProduct ==
    \E r \in 1..MaxRequests, p \in SaleProductIds, q \in SaleQuantities :
       sale_select_product(r, p, q)

SaleSelectStock == \E r \in 1..MaxRequests : sale_select_stock(r)

SaleInsert == \E r \in 1..MaxRequests : sale_insert(r)

NextSales ==
    \/ SaleSelectProduct
    \/ SaleSelectStock
    \/ SaleInsert

SpecSales == InitSales /\ [][NextSales]_vars

-----------------------------------------------------------------------------
(* GET /api/import-stock while other requests are served                   *)

\* Steps 1 to 4: the workbook is read and cleaned, the tables are cleared,
\* and db.commit() ends the transaction of the three DELETEs. From here to
\* the first INSERT of step 5 the connection holds no lock on the store.
import_clear ==
    LET wb == STOCK_xlsx
        conn == connect(products, InventoryTransactions, sqlite_sequence)
        cleared == clear_tables(conn)
    IN
    /\ requests.import = "idle"
    /\ UNCHANGED STOCK_xlsx
    /\ IF ~wb.exists
       THEN /\ last' = Response("import_stock", <<>>, 404, "SourceNotFound")
            /\ UNCHANGED <<db, requests>>
       ELSE IF ~(SheetNames \subseteq wb.sheets)
       THEN /\ last' = Response("import_stock", <<>>, 500, "SourceReadError")
            /\ UNCHANGED <<db, requests>>
       ELSE IF CleaningRaises(wb.BALANCE)
       THEN /\ last' = Response("import_stock", <<>>, 500, "CleaningError")
            /\ UNCHANGED <<db, requests>>
       ELSE /\ products' = cleared.committed.products
            /\ InventoryTransactions' = cleared.committed.tx
            /\ sqlite_sequence' = cleared.committed.seq
            /\ requests' = [requests EXCEPT !.import = "cleared"]
            /\ UNCHANGED last

\* Steps 5 to 7 on the store as it is when the first INSERT takes the write
\* lock: one transaction up to the final db.commit() or the db.rollback().
import_insert ==
    LET wb == STOCK_xlsx
        st == insert_phase(wb, connect(products, InventoryTransactions, sqlite_sequence))
        done == lenient_phase(wb, st)
        close(c) == /\ products' = c.committed.products
                    /\ InventoryTransactions' = c.committed.tx
                    /\ sqlite_sequence' = c.committed.seq
    IN
    /\ requests.import = "cleared"
    /\ UNCHANGED STOCK_xlsx
    /\ requests' = [requests EXCEPT !.import = "idle"]
    /\ IF st.error # <<>>
       THEN /\ last' = Reply("import_stock", <<>>, 500, "RowImportError", st.error[1])
            /\ close(st)
       ELSE /\ last' = Reply("import_stock", <<>>, 200, "ok", done.items_added_count)
            /\ close(done)

ImportClear == import_clear

ImportInsert == import_insert

NextReconcile ==
    \/ ImportClear
    \/ ImportInsert
    \/ AddProduct
    \/ RecordPurchase
    \/ RecordSale
    \/ AddTransaction
    \/ DeleteTransaction

SpecReconcile == Init /\ [][NextReconcile]_vars

-----------------------------------------------------------------------------
(* parse_excel_date over the values a column label can be                  *)

Separators == {".", "/", "-"}
DayInputs == {0, 1, 2, 7, 12, 13, 18, 29, 30, 31, 32}
MonthInputs == {0, 1, 2, 4, 7, 12, 13, 18}
\* the year as written and the number of its digits: 24 and 2024 are leap
YearInputs == {<<24, 2>>, <<25, 2>>, <<2024, 4>>, <<2025, 4>>}

DateValues ==
    {NaNLabel, BlankLabel, Word, Other, DateTime(2025, 7, 2), DateTime(2024, 2, 29)}
    \cup {DMY(sep, d, m, y[1], y[2]) :
             sep \in Separators, d \in DayInputs, m \in MonthInputs, y \in YearInputs}

ParseExcelDate ==
    \E date_value \in DateValues :
       /\ last' = Reply("parse_excel_date", date_value, 0, "ok",
                        parse_excel_date(date_value))
       /\ UNCHANGED <<STOCK_xlsx, db, requests>>

NextDates == ParseExcelDate

SpecDates == Init /\ [][NextDates]_vars

-----------------------------------------------------------------------------
(* Properties of POST /api/sale                                            *)

\* The quantities of a request that are numbers.
NumberInputs == {c \in QuantityInputs : c.k = "num"}

-----------------------------------------------------------------------------
(* Properties of GET /api/import-stock: failures                           *)

\* The products the strict phase had inserted when it stopped.
Attempted ==
    import_products(STOCK_xlsx.BALANCE, valid_balance_df(STOCK_xlsx.BALANCE), 1,
                    clear_tables(connect(products, InventoryTransactions,
                                         sqlite_sequence))).products

\* C2: when a BALANCE row raises in the strict phase, the catalog after the
\* call is the catalog before the call or holds none of the products this
\* call inserted; it never holds some of them.
C2_NoPartialCatalog ==
    [][(last'.op = "import_stock" /\ last'.result = "RowImportError")
       => \/ products' = products
          \/ \A i \in 1..Len(products'), j \in 1..Len(Attempted) :
                products'[i] # Attempted[j]]_vars

\* A row raised after an earlier row had been inserted.
C2_RaisedAfterInsert ==
    /\ last.op = "import_stock"
    /\ last.result = "RowImportError"
    /\ last.value.index >= 1
    /\ products = <<>>

\* C3: when a BALANCE row raises after the clear, the catalog and the ledger
\* are what they were before the clear.
C3_RolledBackToPreClear ==
    [][(last'.op = "import_stock" /\ last'.result = "RowImportError")
       => /\ products' = products
          /\ InventoryTransactions' = InventoryTransactions]_vars

\* The workbook is absent, lacks a sheet, or has a BALANCE sheet the
\* cleaning raises on.
SourceUnusable ==
    \/ ~STOCK_xlsx.exists
    \/ ~(SheetNames \subseteq STOCK_xlsx.sheets)
    \/ CleaningRaises(STOCK_xlsx.BALANCE)

\* C4: an import of an absent file, of a workbook without one of its sheets
\* or of a BALANCE sheet whose cleaning fails answers with an error and
\* leaves the catalog and the ledger as they were.
C4_EarlyFailureKeepsStore ==
    [][(last'.op = "import_stock" /\ SourceUnusable)
       => /\ last'.result \in {"SourceNotFound", "SourceReadError", "CleaningError"}
          /\ last'.status \in {404, 500}
          /\ products' = products
          /\ InventoryTransactions' = InventoryTransactions]_vars

\* The cleaning failed over a catalog and a ledger that are not empty.
C4_CleaningFailedOverStore ==
    /\ last.op = "import_stock"
    /\ last.result = "CleaningError"
    /\ products # <<>>
    /\ InventoryTransactions # <<>>

-----------------------------------------------------------------------------
(* Properties of GET /api/import-stock: the catalog of a successful import *)

ImportSucceeded == last.op = "import_stock" /\ last.result = "ok"

\* The BALANCE rows the filter keeps, in sheet order, duplicates included.
ValidRows == valid_balance_rows(STOCK_xlsx.BALANCE.rows)

\* The row identifiers of the rows the filter keeps.
Identifiers == {ValidRows[i].S_NO : i \in 1..Len(ValidRows)} \ {NA}

\* The position in ValidRows of the first row with identifier s.
FirstIndex(s) ==
    CHOOSE i \in 1..Len(ValidRows) :
        /\ ValidRows[i].S_NO = s
        /\ \A j \in 1..(i - 1) : ValidRows[j].S_NO # s

FirstRow(s) == ValidRows[FirstIndex(s)]

\* The positions in the catalog of the products with the SKU of identifier s.
ProductsOf(s) == {i \in 1..Len(products) : products[i].sku = Sku(s)}

InitialEntries(product_id) ==
    SelectSeq(InventoryTransactions,
              LAMBDA t : t.product_id = product_id /\ t.type = "initial")

C6_AttributesOfFirstRow ==
    ImportSucceeded =>
        \A s \in Identifiers :
           /\ Cardinality(ProductsOf(s)) = 1
           /\ \A i \in ProductsOf(s) :
                 LET row == FirstRow(s) IN
                 /\ products[i].name = str(row.DESCRIPTION)
                 /\ products[i].unit = str(row.UNIT)
                 /\ products[i].opening = int_or_0(row.OPENING)
                 /\ products[i].receipt = int_or_0(row.RECEIPT)
                 /\ products[i].issue = int_or_0(row.ISSUE)
                 /\ products[i].balance = int_or_0(row.BALANCE)

\* The number of identifiers at or before s when counted in ascending order.
RankByIdentifier(s) == Cardinality({t \in Identifiers : t.v <= s.v})

\* The number of identifiers at or before s when counted in sheet order.
RankBySheet(s) == Cardinality({t \in Identifiers : FirstIndex(t) <= FirstIndex(s)})

-----------------------------------------------------------------------------
(* Properties of GET /api/import-stock: the ISSUE and RECEIPT sheets       *)

Cells(sheet) == (1..Len(sheet.rows)) \X (1..Len(sheet.labels))

\* A cell of a row that has an identifier of a product of this import, under
\* a label that parses to a date, holding a positive number.
DatedPositive(sheet, c) ==
    LET row == sheet.rows[c[1]] IN
    /\ sheet.keyed
    /\ ~isna(row.S_NO)
    /\ ProductsOf(row.S_NO) # {}
    /\ parse_excel_date(sheet.labels[c[2]]) # None
    /\ row.cells[c[2]].k = "num"
    /\ row.cells[c[2]].v > 0

\* ... of a row that has a description too.
Described(sheet, c) == ~isna(sheet.rows[c[1]].DESCRIPTION)

EntriesOfType(type) == SelectSeq(InventoryTransactions, LAMBDA t : t.type = type)

\* The entry e is what cell c stands for, its quantity being the cell's
\* number (twice the quantity is the cell's v).
EntryOfCell(e, sheet, c) ==
    /\ \E i \in ProductsOf(sheet.rows[c[1]].S_NO) : e.product_id = products[i].id
    /\ 2 * e.quantity_change = -sheet.rows[c[1]].cells[c[2]].v
    /\ e.timestamp = parse_excel_date(sheet.labels[c[2]])

\* ... its quantity being the integer part of the cell's number.
TruncatedEntryOfCell(e, sheet, c) ==
    /\ \E i \in ProductsOf(sheet.rows[c[1]].S_NO) : e.product_id = products[i].id
    /\ e.quantity_change = -int(sheet.rows[c[1]].cells[c[2]])
    /\ e.timestamp = parse_excel_date(sheet.labels[c[2]])

\* The sale entries are, one for one, the entries of the cells of S.
SalesAreExactly(S, Matches(_, _, _)) ==
    LET sales == EntriesOfType("sale")
        sheet == STOCK_xlsx.ISSUE
    IN /\ Len(sales) = Cardinality(S)
       /\ \A c \in S :
             Cardinality({k \in 1..Len(sales) : Matches(sales[k], sheet, c)})
               = Cardinality({d \in S : \A k \in 1..Len(sales) :
                                 Matches(sales[k], sheet, d) <=> Matches(sales[k], sheet, c)})

C9_LastReceiptColumnExcluded ==
    ImportSucceeded =>
        Len(EntriesOfType("purchase"))
          = Cardinality({c \in Cells(STOCK_xlsx.RECEIPT) :
                            /\ DatedPositive(STOCK_xlsx.RECEIPT, c)
                            /\ Described(STOCK_xlsx.RECEIPT, c)
                            /\ c[2] < Len(STOCK_xlsx.RECEIPT.labels)})

\* The workbook can be read and cleaned and none of its cleaned rows raises.
StrictPhaseSucceeds ==
    /\ ~SourceUnusable
    /\ \A k \in 1..Len(valid_balance_df(STOCK_xlsx.BALANCE)) :
          ~RowRaises(STOCK_xlsx.BALANCE, valid_balance_df(STOCK_xlsx.BALANCE)[k])

\* The cells of a sheet the column loop writes an entry for.
ValidCells(sheet) ==
    {c \in Cells(sheet) : DatedPositive(sheet, c) /\ Described(sheet, c)}

\* C10: an import whose strict phase succeeds answers ok whatever the ISSUE
\* and RECEIPT sheets hold, and what it leaves is committed: a product for
\* every cleaned row, an initial entry for every opening whose integer part
\* is not zero, and an entry for every valid cell of either sheet, the
\* failing cells and rows beside them being skipped.
C10_LenientPhaseNeverFails ==
    (last.op = "import_stock" /\ StrictPhaseSucceeds) =>
        /\ last.result = "ok"
        /\ last.status = 200
        /\ Len(products) = Cardinality(Identifiers)
        /\ Len(EntriesOfType("initial"))
             = Cardinality({s \in Identifiers : int(FirstRow(s).OPENING) # 0})
        /\ Len(EntriesOfType("sale")) = Cardinality(ValidCells(STOCK_xlsx.ISSUE))
        /\ Len(EntriesOfType("purchase")) = Cardinality(ValidCells(STOCK_xlsx.RECEIPT))

\* An import went through with an ISSUE row that holds a cell that is text
\* beside a valid cell, and wrote the entry of the valid cell.
C10_SkippedCellBesideEntry ==
    /\ ImportSucceeded
    /\ \E c \in ValidCells(STOCK_xlsx.ISSUE) :
          \E j \in 1..Len(STOCK_xlsx.ISSUE.labels) :
             STOCK_xlsx.ISSUE.rows[c[1]].cells[j] = Txt
    /\ EntriesOfType("sale") # <<>>
    /\ products # <<>>

-----------------------------------------------------------------------------
(* Properties of the single-entry routes                                   *)

\* The signed sum of the quantity changes of the entries of a product.
RECURSIVE SignedSum(_, _)
SignedSum(entries, product_id) ==
    IF entries = <<>> THEN 0
    ELSE (IF entries[Len(entries)].product_id = product_id
          THEN entries[Len(entries)].quantity_change ELSE 0)
         + SignedSum(SubSeq(entries, 1, Len(entries) - 1), product_id)

\* C11: the current stock a sale reports is the signed sum of the ledger
\* entries of its product: the stock left that a successful sale answers
\* with is the sum after the sale, and the current stock that a refusal for
\* insufficient stock names is the sum as it stands.  (The product listing
\* answers with the counters stored in the products row, which no ledger
\* entry changes.)
C11_ReportedStockIsLedgerSum ==
    (last.op = "record_sale" /\ last.result \in {"ok", "InsufficientStock"})
      => last.value = SignedSum(InventoryTransactions, last.args.product_id)

\* A sale went through after an earlier entry of the product and left stock.
C11_SaleLeftStock ==
    /\ last.op = "record_sale"
    /\ last.result = "ok"
    /\ last.value > 0
    /\ Len(SelectSeq(InventoryTransactions,
                     LAMBDA t : t.product_id = last.args.product_id)) >= 2

\* C11 as the specification words it: the stock figure of a product in the
\* product listing is the signed sum of its ledger entries.
C11_AsWorded ==
    last.op = "get_products"
      => \A i \in 1..Len(last.value) :
            last.value[i].balance = SignedSum(InventoryTransactions, last.value[i].id)

\* The quantity of a request is missing, zero, negative or no number.
BadQuantity(quantity) ==
    \/ isna(quantity)
    \/ quantity.k \in {"text", "array"}
    \/ quantity.k = "num" /\ quantity.v <= 0

\* C12: a purchase or a sale whose quantity is missing, zero, negative or
\* no number fails with ValidationError, and one whose quantity is good but
\* whose product id is of no product fails with NotFound; either way the
\* ledger and the catalog are unchanged.
C12_ValidatedBeforeWriting ==
    [][(last'.op \in {"record_purchase", "record_sale"})
       => /\ BadQuantity(last'.args.quantity)
             => /\ last'.result = "ValidationError"
                /\ InventoryTransactions' = InventoryTransactions
                /\ products' = products
          /\ (/\ ~BadQuantity(last'.args.quantity)
              /\ last'.args.product_id # 0
              /\ last'.args.product_id \notin ProductIdsOf(products))
             => /\ last'.result = "NotFound"
                /\ InventoryTransactions' = InventoryTransactions
                /\ products' = products]_vars

\* The kind of entry each single-entry route writes.
KindOf(op) ==
    IF op = "add_product" THEN "initial"
    ELSE IF op = "record_purchase" THEN "purchase" ELSE "sale"

\* C13: every add_product, record_purchase or record_sale that succeeds
\* appends exactly one entry, of kind initial, purchase or sale, owned by the
\* product the call is for, after the entries that were there and without
\* changing them; an add_product that succeeds had a quantity that is a
\* positive integer.
C13_OneEntryPerSuccess ==
    [][(/\ last'.op \in {"add_product", "record_purchase", "record_sale"}
        /\ last'.result = "ok")
       => LET n == Len(InventoryTransactions)
              target == IF last'.op = "add_product"
                        THEN products'[Len(products')].id
                        ELSE last'.args.product_id
          IN /\ Len(InventoryTransactions') = n + 1
             /\ SubSeq(InventoryTransactions', 1, n) = InventoryTransactions
             /\ InventoryTransactions'[n + 1].type = KindOf(last'.op)
             /\ InventoryTransactions'[n + 1].product_id = target
             /\ last'.op = "add_product"
                  => /\ last'.args.quantity.k = "num"
                     /\ last'.args.quantity.v > 0
                     /\ last'.args.quantity.v % 2 = 0]_vars

\* C14: in every reachable state every persisted entry's product id is the id
\* of a product of the catalog.
C14_EveryEntryHasProduct ==
    \A i \in 1..Len(InventoryTransactions) :
        InventoryTransactions[i].product_id \in ProductIdsOf(products)

UniqueSkus ==
    \A i, j \in 1..Len(products) : products[i].sku = products[j].sku => i = j

\* C15: no two products ever share a SKU, and an add_product whose SKU is
\* already in the catalog never succeeds, answers DuplicateSKU when its
\* quantity is a number, and leaves the catalog, the ledger and the id
\* counters as they were.
C15_SkuUnique ==
    /\ []UniqueSkus
    /\ [][(/\ last'.op = "add_product"
           /\ last'.args.sku \in SkusOf(products))
          => /\ last'.result # "ok"
             /\ last'.args.quantity.k = "num" => last'.result = "DuplicateSKU"
             /\ UNCHANGED db]_vars

\* A duplicate SKU was refused for a product that has ledger entries.
C15_DuplicateRefused ==
    /\ last.op = "add_product"
    /\ last.result = "DuplicateSKU"
    /\ \E i \in 1..Len(products) :
          /\ products[i].sku = last.args.sku
          /\ \E j \in 1..Len(InventoryTransactions) :
                InventoryTransactions[j].product_id = products[i].id

\* The sequence s without its k-th element.
Without(s, k) == SubSeq(s, 1, k - 1) \o SubSeq(s, k + 1, Len(s))

\* C16: delete_transaction of an id the ledger holds removes exactly that
\* entry, keeps every other entry and the whole catalog, and lowers the
\* ledger sum of the owning product by the entry's quantity; for an id the
\* ledger does not hold it answers NotFound and changes nothing.
C16_DeleteRemovesOneEntry ==
    [][last'.op = "delete_transaction"
       => LET id == last'.args.transaction_id
              at == {k \in 1..Len(InventoryTransactions) :
                        InventoryTransactions[k].id = id}
          IN IF at = {}
             THEN last'.result = "NotFound" /\ UNCHANGED db
             ELSE \E k \in at :
                    LET gone == InventoryTransactions[k] IN
                    /\ last'.result = "ok"
                    /\ InventoryTransactions' = Without(InventoryTransactions, k)
                    /\ products' = products
                    /\ \A p \in ProductIdInputs \cup TxProductIdInputs :
                          SignedSum(InventoryTransactions', p) =
                            SignedSum(InventoryTransactions, p)
                              - (IF p = gone.product_id THEN gone.quantity_change ELSE 0)]_vars

\* An entry was deleted while another entry of the same product stays.
C16_DeletedBesideSibling ==
    /\ last.op = "delete_transaction"
    /\ last.result = "ok"
    /\ \E i \in 1..Len(InventoryTransactions) :
          InventoryTransactions[i].product_id = last.value.product_id

-----------------------------------------------------------------------------
(* Properties of requests served at the same time                          *)

\* The orders in which the requests can be served one after another.
SerialOrders ==
    {o \in [1..MaxRequests -> 1..MaxRequests] :
        \A i, j \in 1..MaxRequests : o[i] = o[j] => i = j}

\* The ledger and the answer of one sale served alone on the ledger tx.
served_alone(s, r) ==
    LET rq == requests.sale[r]
        q == int(rq.quantity)
        answer(result) == [s EXCEPT !.result[r] = result]
    IN IF rq.product_id = 0 \/ isna(rq.quantity) \/ q <= 0
       THEN answer("ValidationError")
       ELSE IF rq.product_id \notin ProductIdsOf(products)
       THEN answer("NotFound")
       ELSE IF SignedSum(s.tx, rq.product_id) < q
       THEN answer("InsufficientStock")
       ELSE [tx |-> Append(s.tx, [id |-> Len(s.tx) + 1, product_id |-> rq.product_id,
                                  type |-> "sale", quantity_change |-> -q,
                                  notes |-> <<"Sale", q, "", "", "">>,
                                  timestamp |-> CURRENT_TIMESTAMP]),
             result |-> [s.result EXCEPT ![r] = "ok"]]

RECURSIVE served_in_order(_, _, _)
served_in_order(order, i, s) ==
    IF i > MaxRequests THEN s
    ELSE served_in_order(order, i + 1, served_alone(s, order[i]))

\* The ledger the sales started from: the entries that are no sales.
LedgerBeforeSales == SelectSeq(InventoryTransactions, LAMBDA t : t.type # "sale")

AllAnswered == \A r \in 1..MaxRequests : requests.sale[r].pc = "done"

\* C17: when sales on one product are served at the same time and all have
\* been answered, the ledger and the answers are those of serving the same
\* sales one after another in some order.
C17_SalesSerializable ==
    AllAnswered
      => \E order \in SerialOrders :
            LET s == served_in_order(order, 1,
                        [tx |-> LedgerBeforeSales,
                         result |-> [r \in 1..MaxRequests |-> ""]])
            IN /\ s.tx = InventoryTransactions
               /\ \A r \in 1..MaxRequests : s.result[r] = requests.sale[r].result

\* C18: from the moment a reconciliation has cleared the tables until it
\* ends, no step of another request changes the catalog, the ledger or the
\* id counters.
C18_ExclusiveWhileReconciling ==
    [][(requests.import = "cleared" /\ requests'.import = "cleared")
       => UNCHANGED db]_vars

-----------------------------------------------------------------------------
(* Properties of the cleaning and of parse_excel_date                      *)

Cleanable == STOCK_xlsx.exists /\ SheetNames \subseteq STOCK_xlsx.sheets
             /\ ~CleaningRaises(STOCK_xlsx.BALANCE)

\* C19: the cleaning of the BALANCE rows applied to its own output returns
\* that output: the same rows in the same order.
C19_CleaningIdempotent ==
    Cleanable
      => LET once == valid_balance_df(STOCK_xlsx.BALANCE)
         IN valid_balance_df(BalanceSheet(STOCK_xlsx.BALANCE.columns, once)) = once

\* An import has cleaned a sheet of which it dropped a row and kept one.
C19_CleanedSomeRowsAway ==
    /\ last.op = "import_stock"
    /\ Cleanable
    /\ LET once == valid_balance_df(STOCK_xlsx.BALANCE)
       IN /\ once # <<>>
          /\ Len(once) < Len(STOCK_xlsx.BALANCE.rows)
          /\ once # STOCK_xlsx.BALANCE.rows

\* A string "<d><sep><m><sep><y>" that is written in one of the four formats
\* and names a day of the calendar when its first number is read as the day.
InExplicitFormat(v) ==
    /\ v.k = "dmy"
    /\ v.sep \in {".", "/"}
    /\ v.ylen \in {2, 4}
    /\ v.m \in 1..12
    /\ v.d \in 1..DaysInMonth(Year(v), v.m)

\* C20: parse_excel_date answers every value with absence or a date of the
\* calendar; a string in one of the four formats gives the date whose day is
\* its first number and whose month is its second; an absent value, a blank
\* string and a word such as TOTAL give absence; a datetime gives its date.
C20_TotalAndDayFirst ==
    last.op = "parse_excel_date"
      => LET v == last.args
             date == last.value
         IN /\ date = None \/ ValidDate(date.y, date.m, date.d)
            /\ InExplicitFormat(v) => date = Date(Year(v), v.m, v.d)
            /\ v \in {NaNLabel, BlankLabel, Word} => date = None
            /\ v.k = "datetime" => date = Date(v.y, v.m, v.d)

\* "2.7.25" was parsed, where day and month can be taken for each other.
C20_ParsedSecondOfJuly ==
    /\ last.op = "parse_excel_date"
    /\ last.args = DMY(".", 2, 7, 25, 2)
    /\ last.value = Date(2025, 7, 2)

-----------------------------------------------------------------------------
(* Properties of the ledger as a whole                                     *)

\* C21: in every reachable state every entry's sign matches its kind: an
\* initial or purchase entry has a quantity change above zero, a sale entry
\* one below zero.
C21_SignMatchesKind ==
    \A i \in 1..Len(InventoryTransactions) :
        LET t == InventoryTransactions[i]
        IN IF t.type = "sale" THEN t.quantity_change < 0 ELSE t.quantity_change > 0

\* The tables a whole run of the import commits when it starts from the
\* tables ps, tx and the id counters seq.
imported_over(ps, tx, seq) ==
    lenient_phase(STOCK_xlsx, strict_phase(STOCK_xlsx, connect(ps, tx, seq))).committed

C23_StockNeverNegative ==
    (\A i \in 1..Len(InventoryTransactions) :
        InventoryTransactions[i].type = "initial"
          => InventoryTransactions[i].quantity_change >= 0)
      => \A p \in ProductIdsOf(products) : SignedSum(InventoryTransactions, p) >= 0

=============================================================================
